---- MODULE Spec2Model ----
(***************************************************************************)
(* Model of binaryfile/fileformat.py: the two engines that run one file    *)
(* description, BinarySectionReader (decode) and BinarySectionWriter       *)
(* (encode).  A description is a Python callback; here it is the sequence  *)
(* of operations it calls on the section it is given.  The first engine    *)
(* takes its operations from a bounded vocabulary and records them in      *)
(* desc; the second engine then runs the recorded description on what the  *)
(* first produced (read then write, or write then read).                   *)
(***************************************************************************)
EXTENDS Integers, Sequences, FiniteSets, TLC

VARIABLES
  engine,   \* "reader" or "writer": the engine that runs the description
  mode,     \* "free": operations are chosen; "replay": desc is run again
  status,   \* "running", "returned" (read()/write() returned) or "raised"
  inp,      \* the bytes the input handle is known to hold
  pos,      \* read position of the input handle
  inpEnd,   \* TRUE once the input handle is known to hold nothing after inp
  out,      \* the bytes written to the output handle
  rstack,   \* BinarySectionReader objects, root first, innermost last
  wstack,   \* BinarySectionWriter objects, root first, innermost last
  data,     \* the container handed to write(), as a tagged value
  desc,     \* the operations of the description, in call order
  ip,       \* index in desc of the next operation
  lastOp,   \* the operation called last
  ret,      \* what the last operation returned to the description
  rets,     \* what each operation of desc returned when it was first run
  err,      \* the exception that ended the traversal, or "none"
  errName   \* the field name the exception message carries

vars == <<engine, mode, status, inp, pos, inpEnd, out, rstack, wstack, data,
          desc, ip, lastOp, ret, rets, err, errName>>

(***************************************************************************)
(* Bounds of the model.                                                    *)
(***************************************************************************)
MaxOps == 3       \* operations in one description
MaxLen == 2       \* bytes in an input stream
MaxDepth == 3     \* nesting of sections, the root included
MaxSize == 2      \* largest declared field size

Names == {"a", "b"}
ByteVals == {0, 1, 255}
Sizes == 1..MaxSize
SKIPPED == "__skipped"
ROOT == "(root)"

(***************************************************************************)
(* Python values, tagged with their type.                                  *)
(***************************************************************************)
PyNone == [t |-> "none", v |-> 0]
PyInt(n) == [t |-> "int", v |-> n]
PyBool(b) == [t |-> "bool", v |-> b]
PyStr(s) == [t |-> "str", v |-> s]
PyBytes(bs) == [t |-> "bytes", v |-> bs]
PyTuple(xs) == [t |-> "tuple", v |-> xs]
PyList(xs) == [t |-> "list", v |-> xs]
PyDict(f) == [t |-> "dict", v |-> f]
EmptyDict == [k \in {} |-> PyNone]

\* size is None or size == -1
SizeNone == -1
Unbounded(size) == size = SizeNone
\* byteorder=None
BoNone == "None"

Reverse(s) == [i \in 1..Len(s) |-> s[Len(s) + 1 - i]]

RECURSIVE Pow256(_)
Pow256(n) == IF n = 0 THEN 1 ELSE 256 * Pow256(n - 1)

RECURSIVE BigEndianValue(_)
BigEndianValue(bs) ==
  IF Len(bs) = 0 THEN 0
  ELSE 256 * BigEndianValue(SubSeq(bs, 1, Len(bs) - 1)) + bs[Len(bs)]

\* A from_bytes that reads every byte string as unsigned.
from_bytes_unsigned(bs, byteorder, signed) ==
  BigEndianValue(IF byteorder = "big" THEN bs ELSE Reverse(bs))

\* int.from_bytes(bytes_, byteorder=byteorder, signed=signed)
from_bytes(bs, byteorder, signed) ==
  LET be == IF byteorder = "big" THEN bs ELSE Reverse(bs)
      u == BigEndianValue(be)
  IN IF signed /\ Len(be) > 0 /\ be[1] >= 128 THEN u - Pow256(Len(be)) ELSE u

\* A to_bytes that keeps the low bytes of any value and never overflows.
to_bytes_wrapping(value, size, byteorder, signed) ==
  LET le == [i \in 1..size |-> (value \div Pow256(i - 1)) % 256]
  IN [ok |-> TRUE, bytes |-> IF byteorder = "big" THEN Reverse(le) ELSE le]

\* value.to_bytes(size, byteorder=byteorder, signed=signed); ok = FALSE is
\* OverflowError.  The bytes are the two's complement digits of value; a
\* signed value fits when the digits above size are its sign extension
\* (CPython accepts -1 in 0 bytes).
to_bytes(value, size, byteorder, signed) ==
  LET le == [i \in 1..size |-> (value \div Pow256(i - 1)) % 256]
      rest == value \div Pow256(size)
      top == IF size = 0 THEN 0 ELSE le[size]
      fits == IF ~signed THEN value >= 0 /\ rest = 0
              ELSE IF value >= 0 THEN rest = 0 /\ top < 128
              ELSE rest = -1 /\ (size = 0 \/ top >= 128)
  IN [ok |-> fits, bytes |-> IF byteorder = "big" THEN Reverse(le) ELSE le]

RECURSIVE NatBits(_)
NatBits(n) == IF n = 0 THEN 0 ELSE 1 + NatBits(n \div 2)

\* value.bit_length()
bit_length(value) == NatBits(IF value < 0 THEN -value ELSE value)

Min(x, y) == IF x < y THEN x ELSE y
Last(s) == s[Len(s)]
Front(s) == SubSeq(s, 1, Len(s) - 1)

(***************************************************************************)
(* The struct module, for formats '>' followed by the one-byte codes '?'   *)
(* (bool) and 'B' (unsigned char).  A format is the sequence of its codes. *)
(***************************************************************************)
Formats == {<<"?", "B">>}

\* struct.calcsize(formatstr)
calcsize(fmt) == Len(fmt)

\* struct.unpack(formatstr, bytes_)
unpack(fmt, bs) ==
  PyTuple([i \in 1..Len(fmt) |->
            IF fmt[i] = "?" THEN PyBool(bs[i] # 0) ELSE PyInt(bs[i])])

\* bool(x)
Truthy(x) ==
  CASE x.t = "bool" -> x.v
    [] x.t = "int" -> x.v # 0
    [] x.t \in {"bytes", "tuple", "list"} -> Len(x.v) > 0
    [] x.t = "dict" -> DOMAIN x.v # {}
    [] x.t = "str" -> TRUE
    [] OTHER -> FALSE

\* One argument of struct.pack: '?' takes the truth value of anything, 'B'
\* takes an integer of 0..255; ok = FALSE is struct.error.
PackOne(code, x) ==
  IF code = "?" THEN [ok |-> TRUE, byte |-> IF Truthy(x) THEN 1 ELSE 0]
  ELSE IF x.t = "int" THEN [ok |-> x.v \in 0..255, byte |-> x.v]
  ELSE IF x.t = "bool" THEN [ok |-> TRUE, byte |-> IF x.v THEN 1 ELSE 0]
  ELSE [ok |-> FALSE, byte |-> 0]

\* struct.pack(formatstr, *args); ok = FALSE is struct.error
pack(fmt, args) ==
  IF Len(args) # Len(fmt) THEN [ok |-> FALSE, bytes |-> <<>>]
  ELSE LET one == [i \in 1..Len(fmt) |-> PackOne(fmt[i], args[i])]
       IN [ok |-> \A i \in 1..Len(fmt) : one[i].ok,
           bytes |-> [i \in 1..Len(fmt) |-> one[i].byte]]

(***************************************************************************)
(* Operations of a description.                                            *)
(***************************************************************************)
Op(k, name, size, bo, fmt, target) ==
  [k |-> k, name |-> name, size |-> size, bo |-> bo, fmt |-> fmt, target |-> target]

NoOp == Op("none", "", 0, BoNone, <<>>, "")
BOArgs == {BoNone, "little"}

SkipOps == {Op("skip", SKIPPED, s, BoNone, <<>>, "") : s \in Sizes}
BytesOps == {Op("bytes", n, s, BoNone, <<>>, "") : n \in Names, s \in Sizes}
IntOps == {Op("int", n, s, b, <<>>, "") : n \in Names, s \in Sizes, b \in BOArgs}
UintOps == {Op("uint", n, s, b, <<>>, "") : n \in Names, s \in Sizes, b \in BOArgs}
StructOps == {Op("struct", n, 0, BoNone, f, "") : n \in Names, f \in Formats}
CountOps == {Op("count", n, s, BoNone, <<>>, t) : n \in Names, s \in Sizes, t \in Names}
SectionOps == {Op("section", n, 0, BoNone, <<>>, "") : n \in Names}
EndOps == {Op("end", "", 0, BoNone, <<>>, "")}
ArrayOps == {Op("array", n, 0, BoNone, <<>>, "") : n \in Names}
ByteorderOps == {Op("byteorder", "", 0, b, <<>>, "") : b \in {"big", "little"}}

AllOps == SkipOps \cup BytesOps \cup IntOps \cup UintOps \cup StructOps \cup CountOps
          \cup SectionOps \cup EndOps \cup ArrayOps \cup ByteorderOps

\* The operations of kind k the description may call next.
OpChoices(k) ==
  IF mode = "free"
  THEN IF Len(desc) < MaxOps THEN {o \in AllOps : o.k = k} ELSE {}
  ELSE IF ip <= Len(desc) /\ desc[ip].k = k THEN {desc[ip]} ELSE {}

\* Every operation is recorded as called, whether it returns or raises.
Step(op) ==
  /\ desc' = IF mode = "free" THEN Append(desc, op) ELSE desc
  /\ ip' = ip + 1
  /\ lastOp' = op

\* The description keeps what the operations of its first run returned.
Seen(v) == rets' = IF mode = "free" THEN Append(rets, v) ELSE rets

Return(v) ==
  status' = status /\ err' = err /\ errName' = errName /\ ret' = v /\ Seen(v)
Raise(e, n) ==
  status' = "raised" /\ err' = e /\ errName' = n /\ ret' = PyNone /\ Seen(PyNone)

(***************************************************************************)
(* BinarySectionBase                                                       *)
(***************************************************************************)
RECURSIVE qualified_name(_)
qualified_name(stack) ==
  IF Len(stack) > 1 THEN qualified_name(Front(stack)) \o <<Last(stack).name>>
  ELSE <<Last(stack).name>>

\* The dotted string, as the list of its components.
get_qualified_field_name(stack, name) == qualified_name(stack) \o <<name>>

(***************************************************************************)
(* The input handle: handle.read(size).  The content of the stream is      *)
(* revealed as it is read; a read that returns fewer bytes than asked for, *)
(* or a read of everything, fixes the end of the stream.                   *)
(***************************************************************************)
SeqsUpTo(n) == UNION {[1..k -> ByteVals] : k \in 0..n}

HandleRead(size) ==
  IF inpEnd
  THEN LET avail == Len(inp) - pos
           n == IF Unbounded(size) THEN avail ELSE Min(size, avail)
       IN {[bytes |-> SubSeq(inp, pos + 1, pos + n), inp |-> inp, end |-> TRUE]}
  ELSE LET room == MaxLen - Len(inp)
           most == IF Unbounded(size) THEN room ELSE Min(size, room)
       IN {[bytes |-> c, inp |-> inp \o c, end |-> Unbounded(size) \/ Len(c) < size]
           : c \in SeqsUpTo(most)}

(***************************************************************************)
(* BinarySectionReader                                                     *)
(***************************************************************************)
ReaderSection(name) ==
  [name |-> name, byteorder |-> "big", result |-> EmptyDict, arrays |-> {}]

SetItem(d, key, value) == (key :> value) @@ d

\* f'__skipped[{len(skipped)}]'
SkippedName(k) ==
  <<"__skipped[0]", "__skipped[1]", "__skipped[2]", "__skipped[3]",
    "__skipped[4]", "__skipped[5]">>[k + 1]

\* An _add_result that stores over a field that is no array.
Reader_add_result_overwrite(f, name, result) ==
  IF name \in DOMAIN f.result /\ name \in f.arrays
  THEN [ok |-> TRUE,
        frame |-> [f EXCEPT !.result[name] = PyList(Append(@.v, result))]]
  ELSE [ok |-> TRUE, frame |-> [f EXCEPT !.result = SetItem(@, name, result)]]

\* BinarySectionReader._add_result; ok = FALSE is DefinitionError
Reader_add_result(f, name, result) ==
  IF name \in DOMAIN f.result
  THEN IF name \in f.arrays
       THEN [ok |-> TRUE,
             frame |-> [f EXCEPT !.result[name] = PyList(Append(@.v, result))]]
       ELSE [ok |-> FALSE, frame |-> f]
  ELSE [ok |-> TRUE, frame |-> [f EXCEPT !.result = SetItem(@, name, result)]]

ReaderRunning == engine = "reader" /\ status = "running"
ReaderTop == Last(rstack)
SetTop(stack, f) == [stack EXCEPT ![Len(stack)] = f]

\* A length test that only notices an empty read.
Reader_read_bytes_eof_empty(bytes_, size) == ~Unbounded(size) /\ Len(bytes_) = 0

\* BinarySectionReader._read_bytes: TRUE when it raises EOFError for what
\* handle.read(size) returned
Reader_read_bytes_eof(bytes_, size) == ~Unbounded(size) /\ Len(bytes_) < size

\* What each value operation makes of the bytes it read
Reader_convert(op, bytes_, byteorder) ==
  CASE op.k = "bytes" -> PyBytes(bytes_)
    [] op.k = "int" -> PyInt(from_bytes(bytes_, byteorder, TRUE))
    [] op.k \in {"uint", "count"} -> PyInt(from_bytes(bytes_, byteorder, FALSE))
    [] op.k = "struct" -> unpack(op.fmt, bytes_)

\* _read_bytes(name, size), the conversion, then _add_result(name, result)
Reader_value(op, size, byteorder) ==
  \E rd \in HandleRead(size) :
    /\ inp' = rd.inp /\ pos' = pos + Len(rd.bytes) /\ inpEnd' = rd.end
    /\ IF Reader_read_bytes_eof(rd.bytes, size)
       THEN /\ Raise("EOFError", get_qualified_field_name(rstack, op.name))
            /\ rstack' = rstack
       ELSE LET r == Reader_convert(op, rd.bytes, byteorder)
                ar == Reader_add_result(ReaderTop, op.name, r)
            IN IF ar.ok
               THEN rstack' = SetTop(rstack, ar.frame) /\ Return(r)
               ELSE Raise("DefinitionError", <<op.name>>) /\ rstack' = rstack
    /\ Step(op)
    /\ UNCHANGED <<engine, mode, out, wstack, data>>

\* A byte order that ignores the section's byteorder property.
Reader_byteorder_default(op) == IF op.bo = BoNone THEN "big" ELSE op.bo

\* BinarySectionReader._int: the byte order of the field
Reader_byteorder(op) == IF op.bo = BoNone THEN ReaderTop.byteorder ELSE op.bo

Reader_skip ==
  /\ ReaderRunning
  /\ \E op \in OpChoices("skip") : \E rd \in HandleRead(op.size) :
       LET f == ReaderTop
           r0 == IF SKIPPED \in DOMAIN f.result THEN f.result
                 ELSE SetItem(f.result, SKIPPED, PyList(<<>>))
           skipped == r0[SKIPPED].v
       IN /\ inp' = rd.inp /\ pos' = pos + Len(rd.bytes) /\ inpEnd' = rd.end
          /\ IF Reader_read_bytes_eof(rd.bytes, op.size)
             THEN /\ Raise("EOFError",
                           get_qualified_field_name(rstack, SkippedName(Len(skipped))))
                  /\ rstack' = SetTop(rstack, [f EXCEPT !.result = r0])
             ELSE /\ rstack' = SetTop(rstack, [f EXCEPT !.result =
                       SetItem(r0, SKIPPED, PyList(Append(skipped, PyBytes(rd.bytes))))])
                  /\ Return(PyNone)
          /\ Step(op)
          /\ UNCHANGED <<engine, mode, out, wstack, data>>

Reader_bytes ==
  /\ ReaderRunning
  /\ \E op \in OpChoices("bytes") :
       Reader_value(op, op.size, BoNone)

Reader_int ==
  /\ ReaderRunning
  /\ \E op \in OpChoices("int") :
       Reader_value(op, op.size, Reader_byteorder(op))

Reader_uint ==
  /\ ReaderRunning
  /\ \E op \in OpChoices("uint") :
       Reader_value(op, op.size, Reader_byteorder(op))

\* BinarySectionReader.count: return self.uint(name, size, byteorder)
Reader_count ==
  /\ ReaderRunning
  /\ \E op \in OpChoices("count") :
       Reader_value(op, op.size, Reader_byteorder(op))

Reader_struct ==
  /\ ReaderRunning
  /\ \E op \in OpChoices("struct") :
       Reader_value(op, calcsize(op.fmt), BoNone)

Reader_array ==
  /\ ReaderRunning
  /\ \E op \in OpChoices("array") :
       /\ rstack' = SetTop(rstack, [ReaderTop EXCEPT
                      !.result = SetItem(@, op.name, PyList(<<>>)),
                      !.arrays = @ \cup {op.name}])
       /\ Return(PyNone)
       /\ Step(op)
       /\ UNCHANGED <<engine, mode, inp, pos, inpEnd, out, wstack, data>>

\* the description assigns f.byteorder
Reader_set_byteorder ==
  /\ ReaderRunning
  /\ \E op \in OpChoices("byteorder") :
       /\ rstack' = SetTop(rstack, [ReaderTop EXCEPT !.byteorder = op.bo])
       /\ Return(PyNone)
       /\ Step(op)
       /\ UNCHANGED <<engine, mode, inp, pos, inpEnd, out, wstack, data>>

\* BinarySectionReader.section, up to the call of definition(section)
Reader_section ==
  /\ ReaderRunning
  /\ \E op \in OpChoices("section") :
       /\ Len(rstack) < MaxDepth
       /\ rstack' = Append(rstack, ReaderSection(op.name))
       /\ Return(PyNone)
       /\ Step(op)
       /\ UNCHANGED <<engine, mode, inp, pos, inpEnd, out, wstack, data>>

\* BinarySectionReader.section, from the return of definition(section)
Reader_section_end ==
  /\ ReaderRunning
  /\ Len(rstack) > 1
  /\ \E op \in OpChoices("end") :
       LET child == ReaderTop
           parent == rstack[Len(rstack) - 1]
           r == PyDict(child.result)
           ar == Reader_add_result(parent, child.name, r)
       IN /\ IF ar.ok
             THEN rstack' = SetTop(Front(rstack), ar.frame) /\ Return(r)
             ELSE Raise("DefinitionError", <<child.name>>) /\ rstack' = rstack
          /\ Step(op)
          /\ UNCHANGED <<engine, mode, inp, pos, inpEnd, out, wstack, data>>

(***************************************************************************)
(* Python operations on the container a writer section holds.  e is the    *)
(* exception raised, or "none".                                            *)
(***************************************************************************)
Ok(v) == [e |-> "none", v |-> v]
Exc(e) == [e |-> e, v |-> PyNone]

\* key in x, for a string key
Contains(x, key) ==
  CASE x.t = "dict" -> Ok(key \in DOMAIN x.v)
    [] x.t \in {"list", "tuple"} -> Ok(FALSE)
    [] OTHER -> Exc("TypeError")

\* x[key], for a string key
GetItem(x, key) ==
  CASE x.t = "dict" -> IF key \in DOMAIN x.v THEN Ok(x.v[key]) ELSE Exc("KeyError")
    [] OTHER -> Exc("TypeError")

\* len(x)
Length(x) ==
  CASE x.t \in {"bytes", "list", "tuple"} -> Ok(Len(x.v))
    [] x.t = "dict" -> Ok(Cardinality(DOMAIN x.v))
    [] OTHER -> Exc("TypeError")

\* x[i], for an integer i < len(x)
Index(x, i) ==
  CASE x.t \in {"list", "tuple"} -> Ok(x.v[i + 1])
    [] x.t = "bytes" -> Ok(PyInt(x.v[i + 1]))
    [] x.t = "dict" -> Exc("KeyError")
    [] OTHER -> Exc("TypeError")

\* int(x): the byte values of the model hold no decimal digit
ToInt(x) ==
  CASE x.t = "int" -> Ok(x.v)
    [] x.t = "bool" -> Ok(IF x.v THEN 1 ELSE 0)
    [] x.t = "bytes" -> Exc("ValueError")
    [] OTHER -> Exc("TypeError")

\* *x in a call: the items of x as arguments
Star(x) ==
  CASE x.t \in {"list", "tuple"} -> Ok(x.v)
    [] x.t = "bytes" -> Ok([i \in 1..Len(x.v) |-> PyInt(x.v[i])])
    [] x.t = "dict" ->
         Ok(CHOOSE q \in [1..Cardinality(DOMAIN x.v) -> {PyStr(k) : k \in DOMAIN x.v}] :
              \A k \in DOMAIN x.v : \E i \in DOMAIN q : q[i] = PyStr(k))
    [] OTHER -> Exc("TypeError")

\* A writer section holds a reference into the container given to write():
\* path lists, from the root, the key and (for an array field) the index of
\* each enclosing section.
RECURSIVE ValueAt(_, _)
ValueAt(root, path) ==
  IF path = <<>> THEN root
  ELSE LET item == ValueAt(root, Front(path)).v[Last(path).key]
       IN IF Last(path).idx < 0 THEN item ELSE Index(item, Last(path).idx).v

\* container[key] = value, for the container at path
RECURSIVE SetKeyAt(_, _, _, _)
SetKeyAt(root, path, key, value) ==
  IF path = <<>> THEN PyDict(SetItem(root.v, key, value))
  ELSE LET st == path[1]
           item == root.v[st.key]
       IN IF st.idx < 0
          THEN PyDict(SetItem(root.v, st.key, SetKeyAt(item, Tail(path), key, value)))
          ELSE PyDict(SetItem(root.v, st.key,
                 [item EXCEPT !.v[st.idx + 1] = SetKeyAt(@, Tail(path), key, value)]))

(***************************************************************************)
(* BinarySectionWriter                                                     *)
(***************************************************************************)
WriterSection(name, path) ==
  [name |-> name, byteorder |-> "big", path |-> path, indices |-> EmptyDict]

WriterRunning == engine = "writer" /\ status = "running"
WriterTop == Last(wstack)
\* self.data of the innermost section
WriterData == ValueAt(data, WriterTop.path)

\* A _get_data that never moves on to the next element of an array.
Writer_get_data_stuck(f, d, name) ==
  LET item == GetItem(d, name)
      fail(e, n) == [e |-> e, n |-> n, v |-> PyNone, idx |-> -1, frame |-> f]
  IN IF item.e # "none" THEN fail(item.e, <<>>)
     ELSE IF name \notin DOMAIN f.indices
     THEN [e |-> "none", n |-> <<>>, v |-> item.v, idx |-> -1, frame |-> f]
     ELSE IF Length(item.v).e # "none" THEN fail(Length(item.v).e, <<>>)
     ELSE IF f.indices[name] >= Length(item.v).v THEN fail("DataFormatError", <<name>>)
     ELSE IF Index(item.v, f.indices[name]).e # "none"
          THEN fail(Index(item.v, f.indices[name]).e, <<>>)
     ELSE [e |-> "none", n |-> <<>>, v |-> Index(item.v, f.indices[name]).v,
           idx |-> f.indices[name], frame |-> f]

\* BinarySectionWriter._get_data: e the exception, n the name in its
\* message, v the value, idx the index used (-1 for a field that is no
\* array), frame the section afterwards
Writer_get_data(f, d, name) ==
  LET item == GetItem(d, name)
      fail(e, n) == [e |-> e, n |-> n, v |-> PyNone, idx |-> -1, frame |-> f]
  IN IF name \in DOMAIN f.indices
     THEN IF item.e # "none" THEN fail(item.e, <<>>)
          ELSE LET len == Length(item.v)
                   i == f.indices[name]
               IN IF len.e # "none" THEN fail(len.e, <<>>)
                  ELSE IF i >= len.v THEN fail("DataFormatError", <<name>>)
                  ELSE IF Index(item.v, i).e # "none" THEN fail(Index(item.v, i).e, <<>>)
                  ELSE [e |-> "none", n |-> <<>>, v |-> Index(item.v, i).v, idx |-> i,
                        frame |-> [f EXCEPT !.indices[name] = @ + 1]]
     ELSE IF item.e # "none" THEN fail(item.e, <<>>)
          ELSE [e |-> "none", n |-> <<>>, v |-> item.v, idx |-> -1, frame |-> f]

\* A _write_bytes that writes whatever it is given, whatever its length.
Writer_write_bytes_unchecked(stack, name, size, bytes_) ==
  IF bytes_.t # "bytes" THEN [e |-> "TypeError", n |-> <<>>, bytes |-> <<>>]
  ELSE [e |-> "none", n |-> <<>>, bytes |-> bytes_.v]

\* A _write_bytes that hands the bytes to the handle before it checks their
\* length.
Writer_write_bytes_then_check(stack, name, size, bytes_) ==
  LET len == Length(bytes_)
  IN IF bytes_.t # "bytes" THEN [e |-> "TypeError", n |-> <<>>, bytes |-> <<>>]
     ELSE IF ~Unbounded(size) /\ len.v # size
          THEN [e |-> "DataFormatError", n |-> get_qualified_field_name(stack, name),
                bytes |-> bytes_.v]
     ELSE [e |-> "none", n |-> <<>>, bytes |-> bytes_.v]

\* BinarySectionWriter._write_bytes: e the exception, n the name in its
\* message, bytes what handle.write receives
Writer_write_bytes(stack, name, size, bytes_) ==
  LET len == Length(bytes_)
      fail(e, n) == [e |-> e, n |-> n, bytes |-> <<>>]
  IN IF ~Unbounded(size) /\ len.e # "none" THEN fail(len.e, <<>>)
     ELSE IF ~Unbounded(size) /\ len.v # size
          THEN fail("DataFormatError", get_qualified_field_name(stack, name))
     ELSE IF bytes_.t # "bytes" THEN fail("TypeError", <<>>)
     ELSE [e |-> "none", n |-> <<>>, bytes |-> bytes_.v]

Writer_skip ==
  /\ WriterRunning
  /\ \E op \in OpChoices("skip") :
       LET d == WriterData
           has == Contains(d, SKIPPED)
           f0 == IF SKIPPED \in DOMAIN WriterTop.indices THEN WriterTop
                 ELSE [WriterTop EXCEPT !.indices = SetItem(@, SKIPPED, 0)]
           gd == Writer_get_data(f0, d, SKIPPED)
           wb == Writer_write_bytes(wstack, SKIPPED, op.size, gd.v)
       IN /\ IF has.e # "none"
             THEN Raise(has.e, <<>>) /\ out' = out /\ wstack' = wstack
             ELSE IF ~has.v
             THEN /\ out' = out \o [i \in 1..op.size |-> 0]
                  /\ Return(PyNone) /\ wstack' = wstack
             ELSE IF gd.e # "none"
             THEN Raise(gd.e, gd.n) /\ out' = out /\ wstack' = SetTop(wstack, f0)
             ELSE IF wb.e # "none"
             THEN /\ Raise(wb.e, wb.n) /\ out' = out \o wb.bytes
                  /\ wstack' = SetTop(wstack, gd.frame)
             ELSE /\ out' = out \o wb.bytes
                  /\ Return(gd.v) /\ wstack' = SetTop(wstack, gd.frame)
          /\ Step(op)
          /\ UNCHANGED <<engine, mode, inp, pos, inpEnd, rstack, data>>

Writer_bytes ==
  /\ WriterRunning
  /\ \E op \in OpChoices("bytes") :
       LET gd == Writer_get_data(WriterTop, WriterData, op.name)
           wb == Writer_write_bytes(wstack, op.name, op.size, gd.v)
       IN /\ IF gd.e # "none"
             THEN Raise(gd.e, gd.n) /\ out' = out /\ wstack' = wstack
             ELSE IF wb.e # "none"
             THEN /\ Raise(wb.e, wb.n) /\ out' = out \o wb.bytes
                  /\ wstack' = SetTop(wstack, gd.frame)
             ELSE /\ out' = out \o wb.bytes
                  /\ Return(gd.v) /\ wstack' = SetTop(wstack, gd.frame)
          /\ Step(op)
          /\ UNCHANGED <<engine, mode, inp, pos, inpEnd, rstack, data>>

\* BinarySectionWriter._int
Writer__int(op, signed) ==
  LET gd == Writer_get_data(WriterTop, WriterData, op.name)
      value == ToInt(gd.v)
      size == IF Unbounded(op.size) THEN (bit_length(value.v) + 7) \div 8 ELSE op.size
      byteorder == IF op.bo = BoNone THEN WriterTop.byteorder ELSE op.bo
      tb == to_bytes(value.v, size, byteorder, signed)
  IN /\ IF gd.e # "none"
        THEN Raise(gd.e, gd.n) /\ out' = out /\ wstack' = wstack
        ELSE IF value.e # "none"
        THEN Raise(value.e, <<>>) /\ out' = out /\ wstack' = SetTop(wstack, gd.frame)
        ELSE IF ~tb.ok
        THEN /\ Raise("DataFormatError", get_qualified_field_name(wstack, op.name))
             /\ out' = out /\ wstack' = SetTop(wstack, gd.frame)
        ELSE /\ out' = out \o tb.bytes
             /\ Return(PyInt(value.v)) /\ wstack' = SetTop(wstack, gd.frame)
     /\ Step(op)
     /\ UNCHANGED <<engine, mode, inp, pos, inpEnd, rstack, data>>

Writer_int ==
  /\ WriterRunning
  /\ \E op \in OpChoices("int") : Writer__int(op, TRUE)

Writer_uint ==
  /\ WriterRunning
  /\ \E op \in OpChoices("uint") : Writer__int(op, FALSE)

\* BinarySectionWriter.count: self.data[name] is set, then the call
\* self.uint(self, name, size, byteorder) passes one positional argument more
\* than uint takes, which is a TypeError before any byte is written.
Writer_count ==
  /\ WriterRunning
  /\ \E op \in OpChoices("count") :
       LET item == GetItem(WriterData, op.target)
           len == Length(item.v)
       IN /\ IF item.e # "none" THEN Raise(item.e, <<>>) /\ data' = data
             ELSE IF len.e # "none" THEN Raise(len.e, <<>>) /\ data' = data
             ELSE /\ data' = SetKeyAt(data, WriterTop.path, op.name, PyInt(len.v))
                  /\ Raise("TypeError", <<>>)
          /\ Step(op)
          /\ UNCHANGED <<engine, mode, inp, pos, inpEnd, out, rstack, wstack>>

Writer_struct ==
  /\ WriterRunning
  /\ \E op \in OpChoices("struct") :
       LET gd == Writer_get_data(WriterTop, WriterData, op.name)
           args == Star(gd.v)
           pk == pack(op.fmt, args.v)
       IN /\ IF gd.e # "none"
             THEN Raise(gd.e, gd.n) /\ out' = out /\ wstack' = wstack
             ELSE IF args.e # "none"
             THEN Raise(args.e, <<>>) /\ out' = out /\ wstack' = SetTop(wstack, gd.frame)
             ELSE IF ~pk.ok
             THEN /\ Raise("DataFormatError", get_qualified_field_name(wstack, op.name))
                  /\ out' = out /\ wstack' = SetTop(wstack, gd.frame)
             ELSE /\ out' = out \o pk.bytes
                  /\ Return(GetItem(WriterData, op.name).v)
                  /\ wstack' = SetTop(wstack, gd.frame)
          /\ Step(op)
          /\ UNCHANGED <<engine, mode, inp, pos, inpEnd, rstack, data>>

Writer_array ==
  /\ WriterRunning
  /\ \E op \in OpChoices("array") :
       /\ wstack' = SetTop(wstack, [WriterTop EXCEPT !.indices = SetItem(@, op.name, 0)])
       /\ Return(PyNone)
       /\ Step(op)
       /\ UNCHANGED <<engine, mode, inp, pos, inpEnd, out, rstack, data>>

\* the description assigns f.byteorder
Writer_set_byteorder ==
  /\ WriterRunning
  /\ \E op \in OpChoices("byteorder") :
       /\ wstack' = SetTop(wstack, [WriterTop EXCEPT !.byteorder = op.bo])
       /\ Return(PyNone)
       /\ Step(op)
       /\ UNCHANGED <<engine, mode, inp, pos, inpEnd, out, rstack, data>>

\* BinarySectionWriter.section and _section, up to the call of definition(section)
Writer_section ==
  /\ WriterRunning
  /\ \E op \in OpChoices("section") :
       LET gd == Writer_get_data(WriterTop, WriterData, op.name)
       IN /\ Len(wstack) < MaxDepth
          /\ IF gd.e # "none"
             THEN Raise(gd.e, gd.n) /\ wstack' = wstack
             ELSE /\ wstack' = Append(SetTop(wstack, gd.frame),
                         WriterSection(op.name,
                           Append(WriterTop.path, [key |-> op.name, idx |-> gd.idx])))
                  /\ Return(PyNone)
          /\ Step(op)
          /\ UNCHANGED <<engine, mode, inp, pos, inpEnd, out, rstack, data>>

\* BinarySectionWriter.section, from the return of definition(section)
Writer_section_end ==
  /\ WriterRunning
  /\ Len(wstack) > 1
  /\ \E op \in OpChoices("end") :
       /\ wstack' = Front(wstack)
       /\ Return(WriterData)
       /\ Step(op)
       /\ UNCHANGED <<engine, mode, inp, pos, inpEnd, out, rstack, data>>

(***************************************************************************)
(* read(handle, definition) and write(handle, data, definition)            *)
(***************************************************************************)
HandInts == {-1, 1, 256}
HandLeaves ==
  {PyInt(v) : v \in HandInts}
  \cup {PyBytes(<<1>>), PyBytes(<<0, 1>>), PyTuple(<<PyBool(TRUE), PyInt(1)>>)}
HandLists ==
  {PyList(<<PyInt(1)>>), PyList(<<PyInt(1), PyInt(256)>>),
   PyList(<<PyBytes(<<1>>), PyBytes(<<0, 1>>)>>)}
HandSections ==
  {PyDict("a" :> PyInt(256)), PyDict("a" :> PyBytes(<<1>>)),
   PyDict("a" :> PyDict("a" :> PyBytes(<<1>>))),
   PyList(<<PyDict("b" :> PyInt(1))>>)}
HandSkipped ==
  {PyList(<<PyBytes(<<1>>)>>), PyList(<<PyBytes(<<0>>), PyBytes(<<1, 0>>)>>)}

\* The hand-built containers given to write().
Containers ==
  LET A == {PyDict("a" :> x) : x \in HandLeaves \cup HandLists \cup HandSections}
      B == A \cup {PyDict(SetItem(c.v, "b", y)) :
                     c \in A, y \in {PyBytes(<<1>>), PyList(<<PyInt(1)>>)}}
  IN B \cup {PyDict(SetItem(c.v, SKIPPED, s)) : c \in B, s \in HandSkipped}

\* read() constructs the root reader
InitRead ==
  /\ engine = "reader" /\ mode = "free" /\ status = "running"
  /\ inp = <<>> /\ pos = 0 /\ inpEnd = FALSE /\ out = <<>>
  /\ rstack = <<ReaderSection(ROOT)>> /\ wstack = <<>>
  /\ data = PyNone /\ desc = <<>> /\ ip = 1 /\ lastOp = NoOp
  /\ ret = PyNone /\ rets = <<>> /\ err = "none" /\ errName = <<>>

\* write() constructs the root writer
InitWrite ==
  /\ engine = "writer" /\ mode = "free" /\ status = "running"
  /\ inp = <<>> /\ pos = 0 /\ inpEnd = FALSE /\ out = <<>>
  /\ rstack = <<>> /\ wstack = <<WriterSection(ROOT, <<>>)>>
  /\ data \in Containers /\ desc = <<>> /\ ip = 1 /\ lastOp = NoOp
  /\ ret = PyNone /\ rets = <<>> /\ err = "none" /\ errName = <<>>

Init == InitRead \/ InitWrite

\* The description returns to read(), which returns reader.result.  After a
\* first read the result is written with the same description.
read_returns ==
  /\ ReaderRunning /\ Len(rstack) = 1
  /\ IF mode = "free"
     THEN /\ engine' = "writer" /\ mode' = "replay" /\ status' = "running"
          /\ data' = PyDict(rstack[1].result)
          /\ wstack' = <<WriterSection(ROOT, <<>>)>>
          /\ out' = <<>> /\ ip' = 1
          /\ UNCHANGED <<inp, pos, inpEnd, rstack, desc, lastOp, ret, rets, err,
                         errName>>
     ELSE /\ ip > Len(desc)
          /\ status' = "returned"
          /\ UNCHANGED <<engine, mode, inp, pos, inpEnd, out, rstack, wstack, data,
                         desc, ip, lastOp, ret, rets, err, errName>>

\* The description returns to write(), which returns.  After a first write
\* the output is read back with the same description.
write_returns ==
  /\ WriterRunning /\ Len(wstack) = 1
  /\ IF mode = "free"
     THEN /\ engine' = "reader" /\ mode' = "replay" /\ status' = "running"
          /\ inp' = out /\ pos' = 0 /\ inpEnd' = TRUE
          /\ rstack' = <<ReaderSection(ROOT)>>
          /\ ip' = 1
          /\ UNCHANGED <<out, wstack, data, desc, lastOp, ret, rets, err, errName>>
     ELSE /\ ip > Len(desc)
          /\ status' = "returned"
          /\ UNCHANGED <<engine, mode, inp, pos, inpEnd, out, rstack, wstack, data,
                         desc, ip, lastOp, ret, rets, err, errName>>

\* write() of a container with one integer field, around the limits of the
\* declared sizes
Slack == 4
Limits == {0} \cup {s * Pow256(n) : s \in {-1, 1}, n \in Sizes}
              \cup {s * (Pow256(n) \div 2) : s \in {-1, 1}, n \in Sizes}
ProbeInts == UNION {(c - Slack)..(c + Slack) : c \in Limits}

InitInt ==
  /\ engine = "writer" /\ mode = "free" /\ status = "running"
  /\ inp = <<>> /\ pos = 0 /\ inpEnd = FALSE /\ out = <<>>
  /\ rstack = <<>> /\ wstack = <<WriterSection(ROOT, <<>>)>>
  /\ data \in {PyDict("a" :> PyInt(v)) : v \in ProbeInts}
  /\ desc = <<>> /\ ip = 1 /\ lastOp = NoOp
  /\ ret = PyNone /\ rets = <<>> /\ err = "none" /\ errName = <<>>

NextInt == Writer_int \/ Writer_uint

SpecInt == InitInt /\ [][NextInt]_vars

Next ==
  \/ Reader_skip \/ Reader_bytes \/ Reader_int \/ Reader_uint \/ Reader_count
  \/ Reader_struct \/ Reader_array \/ Reader_set_byteorder
  \/ Reader_section \/ Reader_section_end
  \/ Writer_skip \/ Writer_bytes \/ Writer_int \/ Writer_uint \/ Writer_count
  \/ Writer_struct \/ Writer_array \/ Writer_set_byteorder
  \/ Writer_section \/ Writer_section_end
  \/ read_returns \/ write_returns

Spec == Init /\ [][Next]_vars

(***************************************************************************)
(* Properties                                                              *)
(***************************************************************************)
\* reader.result, the container read() returns
Result == PyDict(rstack[1].result)

RoundTrip == engine = "writer" /\ mode = "replay"
Construction == engine = "reader" /\ mode = "replay"
EndsWith(s, t) == Len(s) >= Len(t) /\ SubSeq(s, Len(s) - Len(t) + 1, Len(s)) = t

\* The field a count operation measures exists in the section's container
\* and has a length.
CountTargetSized(op) ==
  /\ GetItem(WriterData, op.target).e = "none"
  /\ Length(GetItem(WriterData, op.target).v).e = "none"

ValueKinds == {"bytes", "int", "uint", "struct", "count", "section"}

\* In every section of desc from operation i on, array(name) is called at
\* most once and before any other use of name; st lists, for the open
\* sections, the names used and the names marked so far.
RECURSIVE ArraysFirst(_, _)
ArraysFirst(i, st) ==
  IF i > Len(desc) THEN TRUE
  ELSE LET op == desc[i]
           top == Last(st)
           use == SetTop(st, [top EXCEPT !.used = @ \cup {op.name}])
       IN CASE op.k = "array" ->
                 /\ op.name \notin top.used \cup top.arrays
                 /\ ArraysFirst(i + 1, SetTop(st, [top EXCEPT !.arrays = @ \cup {op.name}]))
            [] op.k = "section" ->
                 ArraysFirst(i + 1, Append(use, [used |-> {}, arrays |-> {}]))
            [] op.k = "end" -> ArraysFirst(i + 1, Front(st))
            [] op.k \in ValueKinds -> ArraysFirst(i + 1, use)
            [] OTHER -> ArraysFirst(i + 1, st)

ValidDescription == ArraysFirst(1, <<[used |-> {}, arrays |-> {}]>>)

\* C1 Round-trip law, its first half: when a stream was decoded without
\* error by a description that marks its arrays before use, and the result
\* is written with the same description, write() completes without error
\* (a count whose target the description never declares set aside).
C1_RoundTrip ==
  (RoundTrip /\ ValidDescription) =>
    (err = "none" \/ (lastOp.k = "count" /\ ~CountTargetSized(lastOp)))

\* C1 Round-trip law, its second half: once write() has returned, the output
\* holds exactly the bytes of the stream.
C1_SameBytes ==
  (RoundTrip /\ ValidDescription /\ status = "returned") => out = inp

\* C3 Derived count on encode: count(name, target_name, size) on a container
\* that holds target_name completes without error, writes
\* len(data[target_name]) as an unsigned size-byte integer and returns it.
C3_DerivedCount ==
  (engine = "writer" /\ lastOp.k = "count" /\ lastOp.name # lastOp.target
   /\ CountTargetSized(lastOp)) =>
    LET n == Length(GetItem(WriterData, lastOp.target).v).v
    IN /\ err = "none"
       /\ ret = PyInt(n)
       /\ EndsWith(out, to_bytes(n, lastOp.size, WriterTop.byteorder, FALSE).bytes)

\* An operation was called on the running engine in this step.
OpCalled == status = "running" /\ engine' = engine /\ ip' = ip + 1

ReadKinds == {"bytes", "int", "uint", "count", "struct", "skip"}
ReadSize(op) == IF op.k = "struct" THEN calcsize(op.fmt) ELSE op.size
SkippedOf(f) == IF SKIPPED \in DOMAIN f.result THEN f.result[SKIPPED].v ELSE <<>>
FieldsOf(f) == [n \in DOMAIN f.result \ {SKIPPED} |-> f.result[n]]

\* C6 Truncated input: a bounded read of size n that gets fewer than n bytes
\* raises EOFError, returns nothing, and leaves every field of the section
\* and its skipped regions as they were.
C6_Step ==
  (engine = "reader" /\ OpCalled /\ lastOp'.k \in ReadKinds
   /\ ~Unbounded(ReadSize(lastOp')) /\ pos' - pos < ReadSize(lastOp')) =>
    /\ status' = "raised" /\ err' = "EOFError" /\ ret' = PyNone
    /\ Len(rstack') = Len(rstack)
    /\ FieldsOf(Last(rstack')) = FieldsOf(Last(rstack))
    /\ SkippedOf(Last(rstack')) = SkippedOf(Last(rstack))

C6_TruncatedInput == [][C6_Step]_vars

\* A 2-byte unsigned integer was asked of a stream of one byte.
C6_Witness ==
  /\ engine = "reader" /\ err = "EOFError"
  /\ lastOp.k = "uint" /\ lastOp.size = 2 /\ inp = <<1>>
  /\ rstack[1].result = EmptyDict

InRange(v, n, signed) ==
  IF signed THEN -Pow256(n) <= 2 * v /\ 2 * v < Pow256(n)
  ELSE 0 <= v /\ v < Pow256(n)

\* C7 Overflow on encode: uint(name, n) and int(name, n) on a stored integer
\* append exactly n bytes to the output when the value is in the range of n
\* bytes (0 <= v < 256^n unsigned, -(256^n)/2 <= v < (256^n)/2 signed), and
\* raise DataFormatError, writing nothing, otherwise.
C7_Step ==
  (engine = "writer" /\ OpCalled /\ lastOp'.k \in {"int", "uint"}
   /\ Writer_get_data(WriterTop, WriterData, lastOp'.name).e = "none"
   /\ Writer_get_data(WriterTop, WriterData, lastOp'.name).v.t = "int") =>
    LET v == Writer_get_data(WriterTop, WriterData, lastOp'.name).v.v
        n == lastOp'.size
    IN IF InRange(v, n, lastOp'.k = "int")
       THEN /\ err' = "none"
            /\ Len(out') = Len(out) + n
            /\ SubSeq(out', 1, Len(out)) = out
       ELSE err' = "DataFormatError" /\ out' = out

C7_OverflowOnEncode == [][C7_Step]_vars

\* 65535 went into 2 unsigned bytes, then was refused for 1 byte.
C7_Witness ==
  /\ engine = "writer" /\ data = PyDict("a" :> PyInt(65535))
  /\ out = <<255, 255>> /\ err = "DataFormatError"
  /\ lastOp.k = "uint" /\ lastOp.size = 1

\* The operations of the innermost open section among desc[1..i] that are
\* in counts, counted back to the previous operation in stops (or to the
\* start of the section); depth is the number of closed sections the scan
\* is inside.
RECURSIVE CountBack(_, _, _, _)
CountBack(i, depth, counts, stops) ==
  IF i = 0 THEN 0
  ELSE LET op == desc[i]
           one == IF op \in counts THEN 1 ELSE 0
       IN IF op.k = "end" THEN CountBack(i - 1, depth + 1, counts, stops)
          ELSE IF op.k = "section" /\ depth > 0
          THEN (IF depth = 1 THEN one ELSE 0) + CountBack(i - 1, depth - 1, counts, stops)
          ELSE IF op.k = "section" THEN 0
          ELSE IF depth > 0 THEN CountBack(i - 1, depth, counts, stops)
          ELSE IF op \in stops THEN 0
          ELSE one + CountBack(i - 1, 0, counts, stops)

\* skip calls made so far in the innermost open section
SkipCalls == CountBack(ip - 1, 0, SkipOps, {})

IsSkippedList(x) == x.t = "list" /\ \A i \in 1..Len(x.v) : x.v[i].t = "bytes"

\* C10 Skip on encode: with a '__skipped' sequence in the container, the
\* k-th skip(size) of a section writes entry k-1 verbatim, raises
\* DataFormatError when the entry's length is not size or when there is no
\* such entry; without a '__skipped' key it writes size zero bytes.
C10_Step ==
  (engine = "writer" /\ OpCalled /\ lastOp'.k = "skip" /\ WriterData.t = "dict"
   /\ (SKIPPED \in DOMAIN WriterData.v => IsSkippedList(WriterData.v[SKIPPED]))) =>
    LET size == lastOp'.size
        k == SkipCalls + 1
    IN IF SKIPPED \notin DOMAIN WriterData.v
       THEN err' = "none" /\ out' = out \o [i \in 1..size |-> 0]
       ELSE IF k <= Len(WriterData.v[SKIPPED].v)
                /\ Len(WriterData.v[SKIPPED].v[k].v) = size
       THEN err' = "none" /\ out' = out \o WriterData.v[SKIPPED].v[k].v
       ELSE err' = "DataFormatError" /\ out' = out

C10_SkipOnEncode == [][C10_Step]_vars

\* The first skip wrote its 1-byte entry and the second found a 2-byte
\* entry where 1 byte was declared.
C10_Witness ==
  /\ engine = "writer" /\ mode = "free" /\ lastOp.k = "skip" /\ lastOp.size = 1
  /\ SKIPPED \in DOMAIN data.v
  /\ data.v[SKIPPED] = PyList(<<PyBytes(<<0>>), PyBytes(<<1, 0>>)>>)
  /\ out = <<0>> /\ err = "DataFormatError"

\* C9 Every DataFormatError raised during encode carries the qualified name
\* of the failing field: the names of the enclosing sections from the root
\* down, then the field name.
C9_QualifiedName ==
  (engine = "writer" /\ err = "DataFormatError") =>
    errName = get_qualified_field_name(wstack, lastOp.name)

IntKinds == {"int", "uint", "count"}

\* The bytes the input handle delivered in this step.
BytesRead == SubSeq(inp', pos + 1, pos')

\* An int, uint or count without a byteorder argument uses the byteorder of
\* the section it is called on.
C8_UsesSectionOrder ==
  (OpCalled /\ lastOp'.k \in IntKinds /\ lastOp'.bo = BoNone /\ err' = "none") =>
    /\ engine = "reader" =>
         ret' = PyInt(from_bytes(BytesRead, Last(rstack).byteorder, lastOp'.k = "int"))
    /\ engine = "writer" =>
         out' = out \o to_bytes(ret'.v, lastOp'.size, Last(wstack).byteorder,
                                lastOp'.k = "int").bytes

\* No step changes the byteorder of a section that encloses the one the
\* description is running in.
C8_ParentKept ==
  (engine' = engine /\ mode' = mode) =>
    /\ \A i \in 1..(Len(rstack) - 1) :
         i <= Len(rstack') => rstack'[i].byteorder = rstack[i].byteorder
    /\ \A i \in 1..(Len(wstack) - 1) :
         i <= Len(wstack') => wstack'[i].byteorder = wstack[i].byteorder

SectionOpened == OpCalled /\ lastOp'.k = "section" /\ err' = "none"

C8_ChildInherits ==
  SectionOpened =>
    /\ engine = "reader" => Last(rstack').byteorder = Last(rstack).byteorder
    /\ engine = "writer" => Last(wstack').byteorder = Last(wstack).byteorder

C8_ChildStartsBig ==
  SectionOpened =>
    /\ engine = "reader" => Last(rstack').byteorder = "big"
    /\ engine = "writer" => Last(wstack').byteorder = "big"

Held(f, name) == name \in DOMAIN f.result /\ name \notin f.arrays

\* A section returned to the section that declared it.
SectionClosed == engine = "reader" /\ OpCalled /\ lastOp'.k = "end"
Parent == rstack[Len(rstack) - 1]

\* C5 Non-array re-declaration, as claimed: once a name holds a value without
\* having been marked as an array, any later use of the name in the section
\* (a value operation, array(name), a section of that name returning)
\* raises DefinitionError and leaves the first value in place.  A use that
\* a truncated stream ends with EOFError is granted to the claim.
C5_Step ==
  /\ (engine = "reader" /\ OpCalled
      /\ lastOp'.k \in (ValueKinds \cup {"array"}) \ {"section"}
      /\ Held(Last(rstack), lastOp'.name)) =>
       /\ err' \in {"DefinitionError", "EOFError"}
       /\ Last(rstack').result[lastOp'.name] = Last(rstack).result[lastOp'.name]
  /\ (SectionClosed /\ Held(Parent, Last(rstack).name)) =>
       /\ err' = "DefinitionError"
       /\ rstack'[Len(rstack) - 1].result[Last(rstack).name]
            = Parent.result[Last(rstack).name]

C5_NonArrayRedeclaration == [][C5_Step]_vars

\* C5 Non-array re-declaration, amended: once a name holds a value and is
\* not marked as an array, a later value operation on the name raises
\* DefinitionError, unless the stream is truncated there and EOFError is
\* raised first, and either way the first value stays in place; a section of
\* that name raises DefinitionError when it returns; a later array(name)
\* raises nothing and replaces the value by an empty sequence.
C5_StepAmended ==
  /\ (engine = "reader" /\ OpCalled /\ lastOp'.k \in ValueKinds \ {"section"}
      /\ Held(Last(rstack), lastOp'.name)) =>
       /\ err' = IF Reader_read_bytes_eof(BytesRead, ReadSize(lastOp'))
                 THEN "EOFError" ELSE "DefinitionError"
       /\ Last(rstack').result[lastOp'.name] = Last(rstack).result[lastOp'.name]
  /\ (SectionClosed /\ Held(Parent, Last(rstack).name)) =>
       /\ err' = "DefinitionError"
       /\ rstack'[Len(rstack) - 1].result[Last(rstack).name]
            = Parent.result[Last(rstack).name]
  /\ (engine = "reader" /\ OpCalled /\ lastOp'.k = "array"
      /\ Held(Last(rstack), lastOp'.name)) =>
       /\ err' = "none"
       /\ Last(rstack').result[lastOp'.name] = PyList(<<>>)

C5_NonArrayRedeclarationAmended == [][C5_StepAmended]_vars

\* A second read into a field that holds bytes was refused.
C5_Witness ==
  /\ engine = "reader" /\ mode = "free" /\ err = "DefinitionError"
  /\ lastOp.k = "uint" /\ lastOp.name = "a" /\ inp = <<1, 0>>
  /\ rstack[1].result = ("a" :> PyBytes(<<1>>))

\* The value operations on name, and the operations array(name).
OpsOn(name) == {o \in AllOps : o.k \in ValueKinds \ {"count"} /\ o.name = name}
ArrayOf(name) == {o \in AllOps : o.k = "array" /\ o.name = name}

\* Operations on name made in the innermost open section since array(name)
OpsSinceArray(name) == CountBack(ip - 1, 0, OpsOn(name), ArrayOf(name))

\* On decode, array(name) leaves an empty sequence under name; from then on
\* every value operation on name that returns (a section when it returns to
\* its parent) appends the value it returns, and no other step changes the
\* sequence.
C4_Decode ==
  (engine = "reader" /\ engine' = engine /\ mode' = mode) =>
    /\ (OpCalled /\ lastOp'.k = "array") =>
         /\ lastOp'.name \in Last(rstack').arrays
         /\ Last(rstack').result[lastOp'.name] = PyList(<<>>)
    /\ \A i \in 1..Min(Len(rstack), Len(rstack')) : \A n \in rstack[i].arrays :
         LET top == i = Len(rstack) /\ i = Len(rstack')
             marked == OpCalled /\ top /\ lastOp'.k = "array" /\ lastOp'.name = n
             wrote == /\ OpCalled /\ err' = "none"
                      /\ \/ top /\ lastOp'.k \in ValueKinds \ {"section"} /\ lastOp'.name = n
                         \/ /\ lastOp'.k = "end" /\ i = Len(rstack') /\ i = Len(rstack) - 1
                            /\ Last(rstack).name = n
         IN rstack'[i].result[n].v =
              IF marked THEN <<>>
              ELSE IF wrote THEN Append(rstack[i].result[n].v, ret')
              ELSE rstack[i].result[n].v

\* What consuming the element e shows: the operation returns e or writes its
\* encoding, a section runs on e.
Consumed(op, e) ==
  CASE op.k = "bytes" -> ret' = e /\ out' = out \o e.v
    [] op.k \in {"int", "uint"} -> ret' = e /\ Len(out') = Len(out) + op.size
    [] op.k = "struct" -> out' = out \o pack(op.fmt, Star(e).v).bytes
    [] op.k = "section" -> ValueAt(data, Last(wstack').path) = e
    [] OTHER -> FALSE

\* On encode, after array(name), the k-th operation on name consumes element
\* k-1 of the stored sequence, and an operation past its end raises
\* DataFormatError and writes nothing.
C4_Encode ==
  (engine = "writer" /\ OpCalled /\ lastOp'.k \in ValueKinds \ {"count"}
   /\ lastOp'.name \in DOMAIN WriterTop.indices
   /\ GetItem(WriterData, lastOp'.name).e = "none"
   /\ GetItem(WriterData, lastOp'.name).v.t = "list") =>
    LET name == lastOp'.name
        seq == GetItem(WriterData, name).v.v
        k == OpsSinceArray(name) + 1
    IN IF k <= Len(seq)
       THEN /\ ~(err' = "DataFormatError" /\ errName' = <<name>>)
            /\ err' = "none" => Consumed(lastOp', seq[k])
       ELSE err' = "DataFormatError" /\ errName' = <<name>> /\ out' = out

\* C4 Array discipline: on decode, array(name) followed by N value operations
\* on name leaves under name the N values in operation order; on encode,
\* after array(name), the k-th operation on name consumes element k-1 of the
\* stored sequence of length N and the (N+1)-th raises DataFormatError.
C4_ArrayDiscipline == [][C4_Decode /\ C4_Encode]_vars

\* Two array elements were decoded in stream order and written back in the
\* same order.
C4_Witness ==
  /\ RoundTrip /\ status = "returned"
  /\ inp = <<0, 1>> /\ rstack[1].arrays = {"a"}
  /\ data = PyDict("a" :> PyList(<<PyInt(0), PyInt(1)>>))
  /\ out = <<0, 1>>

\* A section of the walk over desc: the container it runs on, the names
\* used and marked so far, the elements taken from each array and the skip
\* calls made.
Walked(val) ==
  [val |-> val, used |-> {}, arrays |-> {}, idx |-> [n \in Names |-> 0], skips |-> 0]

\* The container of the section holds a value for the next operation on name
Has(f, name) ==
  /\ f.val.t = "dict" /\ name \in DOMAIN f.val.v
  /\ IF name \in f.arrays THEN f.idx[name] < Len(f.val.v[name].v)
     ELSE name \notin f.used

Elem(f, name) ==
  IF name \in f.arrays THEN f.val.v[name].v[f.idx[name] + 1] ELSE f.val.v[name]

Use(f, name) == [f EXCEPT !.used = @ \cup {name}, !.idx[name] = @ + 1]

\* The value has the type the operation gives back on decode.
Typed(op, e) ==
  CASE op.k = "bytes" -> e.t = "bytes" /\ Len(e.v) = op.size
    [] op.k \in {"int", "uint"} -> e.t = "int"
    [] op.k = "struct" ->
         /\ e.t = "tuple" /\ Len(e.v) = Len(op.fmt)
         /\ \A j \in 1..Len(op.fmt) :
              e.v[j].t = IF op.fmt[j] = "?" THEN "bool" ELSE "int"
    [] op.k = "section" -> e.t = "dict"
    [] OTHER -> FALSE

\* The section declared every field of its container, took every element of
\* its arrays and every entry of '__skipped'.
Done(f) ==
  /\ f.val.t = "dict"
  /\ DOMAIN f.val.v \ {SKIPPED} = f.used \cup f.arrays
  /\ \A n \in f.arrays : f.idx[n] = Len(f.val.v[n].v)
  /\ SKIPPED \in DOMAIN f.val.v =>
       IsSkippedList(f.val.v[SKIPPED]) /\ Len(f.val.v[SKIPPED].v) = f.skips

\* The container satisfies the field contracts of desc from operation i on:
\* every field is declared once, or marked as an array before its first use
\* and taken to its end, and holds a value of the declared type.
RECURSIVE FieldContracts(_, _)
FieldContracts(i, st) ==
  IF i > Len(desc) THEN Len(st) = 1 /\ Done(st[1])
  ELSE LET op == desc[i]
           top == Last(st)
       IN CASE op.k = "array" ->
                 /\ top.val.t = "dict" /\ op.name \in DOMAIN top.val.v
                 /\ op.name \notin top.used \cup top.arrays
                 /\ top.val.v[op.name].t = "list"
                 /\ FieldContracts(i + 1, SetTop(st, [top EXCEPT !.arrays = @ \cup {op.name}]))
            [] op.k = "skip" ->
                 FieldContracts(i + 1, SetTop(st, [top EXCEPT !.skips = @ + 1]))
            [] op.k = "end" ->
                 Len(st) > 1 /\ Done(top) /\ FieldContracts(i + 1, Front(st))
            [] op.k = "section" ->
                 /\ Has(top, op.name) /\ Typed(op, Elem(top, op.name))
                 /\ FieldContracts(i + 1, Append(SetTop(st, Use(top, op.name)),
                                                 Walked(Elem(top, op.name))))
            [] op.k \in {"bytes", "int", "uint", "struct"} ->
                 /\ Has(top, op.name) /\ Typed(op, Elem(top, op.name))
                 /\ FieldContracts(i + 1, SetTop(st, Use(top, op.name)))
            [] OTHER -> FieldContracts(i + 1, st)

SatisfiesContracts == FieldContracts(1, <<Walked(data)>>)

ZeroEntries(x) ==
  x.t = "list" /\ \A i \in 1..Len(x.v) :
    x.v[i].t = "bytes" /\ \A j \in 1..Len(x.v[i].v) : x.v[i].v[j] = 0

\* r equals c, except that a section of r may hold a '__skipped' sequence of
\* zero-filled entries where the section of c holds none.
RECURSIVE EqualButSkipped(_, _)
EqualButSkipped(r, c) ==
  IF r.t = "dict"
  THEN /\ c.t = "dict"
       /\ DOMAIN r.v \ {SKIPPED} = DOMAIN c.v \ {SKIPPED}
       /\ \A n \in DOMAIN r.v \ {SKIPPED} : EqualButSkipped(r.v[n], c.v[n])
       /\ IF SKIPPED \in DOMAIN c.v
          THEN SKIPPED \in DOMAIN r.v /\ r.v[SKIPPED] = c.v[SKIPPED]
          ELSE SKIPPED \in DOMAIN r.v => ZeroEntries(r.v[SKIPPED])
  ELSE IF r.t = "list"
  THEN /\ c.t = "list" /\ Len(r.v) = Len(c.v)
       /\ \A i \in 1..Len(r.v) : EqualButSkipped(r.v[i], c.v[i])
  ELSE r = c

EncodeFailed == engine = "writer" /\ OpCalled /\ err' = "DataFormatError"

\* C11 Failure leaves a prefix: when an encode operation raises
\* DataFormatError no byte of the failing field is written, the bytes written
\* by the preceding operations stay in the sink in the order they were
\* written, and no later operation of the description runs.
C11_Step ==
  /\ status # "raised"
  /\ EncodeFailed => out' = out /\ status' = "raised"
  /\ (engine = "writer" /\ engine' = "writer") =>
       Len(out') >= Len(out) /\ SubSeq(out', 1, Len(out)) = out

C11_FailureLeavesPrefix == [][C11_Step]_vars

\* The second element of an array of bytes had the wrong length: the first
\* element is in the sink, nothing of the second.
C11_Witness ==
  /\ engine = "writer" /\ mode = "free" /\ status = "raised"
  /\ err = "DataFormatError" /\ errName = <<ROOT, "a">>
  /\ data = PyDict("a" :> PyList(<<PyBytes(<<1>>), PyBytes(<<0, 1>>)>>))
  /\ lastOp.k = "bytes" /\ lastOp.size = 1 /\ out = <<1>>

\* The operation of desc that ran last when the description is run again
Replayed == mode = "replay" /\ ip > 1 /\ status # "raised"

\* C12 Identical values at each step: when the writer runs the description
\* on the container the reader returned, every operation that returns gives
\* the description the value the reader gave it at the same step.
C12_IdenticalValues ==
  (RoundTrip /\ Replayed) => ret = rets[ip - 1]

(***************************************************************************)
(* int(name, None) and uint(name, None): write() of a container with one   *)
(* integer field, then read() of the output with the same description.     *)
(***************************************************************************)
UnboundedOps ==
  {Op(k, "a", SizeNone, b, <<>>, "") : k \in {"int", "uint"}, b \in BOArgs}

\* The description calls an operation of kind k with size=None.
UnboundedChoices(k) ==
  IF mode = "free"
  THEN IF Len(desc) = 0 THEN {o \in UnboundedOps : o.k = k} ELSE {}
  ELSE IF ip <= Len(desc) /\ desc[ip].k = k THEN {desc[ip]} ELSE {}

Writer_int_unbounded ==
  /\ WriterRunning
  /\ \E op \in UnboundedChoices("int") : Writer__int(op, TRUE)

Writer_uint_unbounded ==
  /\ WriterRunning
  /\ \E op \in UnboundedChoices("uint") : Writer__int(op, FALSE)

Reader_int_unbounded ==
  /\ ReaderRunning
  /\ \E op \in UnboundedChoices("int") : Reader_value(op, op.size, Reader_byteorder(op))

Reader_uint_unbounded ==
  /\ ReaderRunning
  /\ \E op \in UnboundedChoices("uint") : Reader_value(op, op.size, Reader_byteorder(op))

NextWidth ==
  \/ Writer_int_unbounded \/ Writer_uint_unbounded
  \/ Reader_int_unbounded \/ Reader_uint_unbounded
  \/ write_returns \/ read_returns

SpecWidth == InitInt /\ [][NextWidth]_vars

\* The stored integer, and whether the claim covers the operation on it.
Stored == data.v["a"].v
Covered == lastOp.size = SizeNone /\ (lastOp.k = "int" \/ Stored >= 0)

\* C13 Unbounded integer width: int(name, None) on every stored integer, and
\* uint(name, None) on every stored integer >= 0, succeed on encode and write
\* the fewest bytes whose range holds the value, and decoding those bytes
\* with the same signedness, byte order and unbounded size returns the value.
C13_UnboundedWidth ==
  /\ (engine = "writer" /\ Covered) =>
       /\ err = "none"
       /\ InRange(Stored, Len(out), lastOp.k = "int")
       /\ \A n \in 0..(Len(out) - 1) : ~InRange(Stored, n, lastOp.k = "int")
  /\ (Construction /\ Covered /\ Replayed) => ret = PyInt(Stored)
====
